---- MODULE Spec2Model ----
(***************************************************************************)
(* NVIC driver for the STM32F446RE (Src/NVIC_Program.c, Inc/NVIC_Interface.h).*)
(*                                                                         *)
(* The driver keeps no state of its own: the state is the NVIC register    *)
(* block.  A 32-bit word is modelled as the set of its bit positions that  *)
(* are 1 (a subset of 0..31), so that &, |, ~, << and >> are computed bit  *)
(* by bit and the 32-bit width is kept.                                    *)
(***************************************************************************)
EXTENDS Integers, Sequences, FiniteSets, TLC

VARIABLES NVIC, before, last, prev, nsteps, irqs, fg, isr

vars == <<NVIC, before, last, prev, nsteps, irqs, fg, isr>>

-----------------------------------------------------------------------------
(* Bounds of the model *)

\* number of calls / hardware events in one sequential run
MaxSteps == 2

\* priority arguments are drawn from 0..MaxPriority (uint32_t in the code)
MaxPriority == 17

\* a sequential run draws its priorities from the multiples of PrioStride below
\* 15 and every value from 15 on; a preempted run draws them from 0..MaxPriority
PrioStride == 5

-----------------------------------------------------------------------------
(* 32-bit words *)

WordBits == 0..31

AllOnes == WordBits

\* 0x55555555
Alternating == {b \in WordBits : b % 2 = 0}

\* the register contents a run starts from
Fills == {{}, AllOnes, Alternating}

\* the word of a natural number n < 2^31
ToWord(n) == {b \in 0..30 : (n \div (2^b)) % 2 = 1}

RECURSIVE Value(_)
\* the number a word stands for (used on words below 2^31 only)
Value(w) == IF w = {} THEN 0
            ELSE LET b == CHOOSE x \in w : TRUE IN (2^b) + Value(w \ {b})

And(a, b) == a \cap b
Or(a, b) == a \cup b
Xor(a, b) == (a \ b) \cup (b \ a)
Not(a) == WordBits \ a
ShiftLeft(w, n) == {b + n : b \in w} \cap WordBits
ShiftRight(w, n) == {b - n : b \in {x \in w : x >= n}}

\* the cast (uint8_t)
U8Word(w) == w \cap (0..7)
U8(n) == n % 256

-----------------------------------------------------------------------------
(* IRQn_Type *)

WWDG == 0
RTC_WKUP == 3
EXTI0 == 6
EXTI1 == 7
I2C1_EV == 31
CAN2_TX == 63
FMPI2C1 == 95
FMPI2C1_error == 96

IRQn_Type == (0..60) \cup (63..78) \cup {81, 84, 87} \cup (91..FMPI2C1_error)

\* the identifiers a run starts from: a run uses b and its successor b + 1
BaseIRQs == {WWDG, RTC_WKUP, EXTI0, EXTI1, I2C1_EV, CAN2_TX, FMPI2C1}

AllPriorities == 0..MaxPriority

Priorities == {p \in AllPriorities : p % PrioStride = 0 \/ p >= 15}

-----------------------------------------------------------------------------
(* The register block.  ISER/ICER are two write ports onto the same enable  *)
(* bits (write 1 to set / write 1 to clear), ISPR/ICPR likewise onto the    *)
(* pending bits; IABR is read-only; IPR is plain storage.                   *)

BitRegs == 0..(FMPI2C1_error \div 32)
PrioRegs == 0..(FMPI2C1_error \div 4)

Access(rw, arr, idx, val) == [rw |-> rw, arr |-> arr, idx |-> idx, val |-> val]

HwRead(nvic, arr, idx) ==
    CASE arr \in {"ISER", "ICER"} -> nvic.ISER[idx]
      [] arr \in {"ISPR", "ICPR"} -> nvic.ISPR[idx]
      [] arr = "IABR" -> nvic.IABR[idx]
      [] arr = "IPR" -> nvic.IPR[idx]

HwWrite(nvic, a) ==
    CASE a.arr = "ISER" -> [nvic EXCEPT !.ISER[a.idx] = @ \cup a.val]
      [] a.arr = "ICER" -> [nvic EXCEPT !.ISER[a.idx] = @ \ a.val]
      [] a.arr = "ISPR" -> [nvic EXCEPT !.ISPR[a.idx] = @ \cup a.val]
      [] a.arr = "ICPR" -> [nvic EXCEPT !.ISPR[a.idx] = @ \ a.val]
      [] a.arr = "IPR" -> [nvic EXCEPT !.IPR[a.idx] = a.val]
      [] a.arr = "IABR" -> nvic

\* every register of the block holds the word w
Filled(w) == [ISER |-> [r \in BitRegs |-> w], ISPR |-> [r \in BitRegs |-> w],
              IABR |-> [r \in BitRegs |-> {}], IPR |-> [r \in PrioRegs |-> w]]

-----------------------------------------------------------------------------
(* Index arithmetic of the driver *)

RegNum(IRQn) == U8(IRQn \div 32)
BitNum(IRQn) == U8(IRQn % 32)
RegIndex_Wide(IRQn) == U8(IRQn \div 8)
RegIndex(IRQn) == U8(IRQn \div 4)
PriorityPos(IRQn) == U8((IRQn % 4) * 8)

-----------------------------------------------------------------------------
(* The single register write of the four bit-array operations *)

EnableIRQ_Write_ICER(IRQn) ==
    Access("W", "ICER", RegNum(IRQn), ShiftLeft(ToWord(1), BitNum(IRQn)))
EnableIRQ_Write(IRQn) ==
    Access("W", "ISER", RegNum(IRQn), ShiftLeft(ToWord(1), BitNum(IRQn)))

DisableIRQ_Write_ISER(IRQn) ==
    Access("W", "ISER", RegNum(IRQn), ShiftLeft(ToWord(1), BitNum(IRQn)))
DisableIRQ_Write(IRQn) ==
    Access("W", "ICER", RegNum(IRQn), ShiftLeft(ToWord(1), BitNum(IRQn)))

SetPendingIRQ_Write(IRQn) ==
    Access("W", "ISPR", RegNum(IRQn), ShiftLeft(ToWord(1), BitNum(IRQn)))

ClearPendingIRQ_Write(IRQn) ==
    Access("W", "ICPR", RegNum(IRQn), ShiftLeft(ToWord(1), BitNum(IRQn)))

BitOps == {"EnableIRQ", "DisableIRQ", "SetPendingIRQ", "ClearPendingIRQ"}

BitOp_Write(op, IRQn) ==
    CASE op = "EnableIRQ" -> EnableIRQ_Write(IRQn)
      [] op = "DisableIRQ" -> DisableIRQ_Write(IRQn)
      [] op = "SetPendingIRQ" -> SetPendingIRQ_Write(IRQn)
      [] op = "ClearPendingIRQ" -> ClearPendingIRQ_Write(IRQn)

-----------------------------------------------------------------------------
(* The getters *)

\* PendingStatus is a uint8_t: the masked 32-bit word is cut to its low byte
GetPendingIRQ_Ret(nvic, IRQn) ==
    Value(U8Word(And(HwRead(nvic, "ISPR", RegNum(IRQn)),
                     ShiftLeft(ToWord(1), BitNum(IRQn)))))

GetPriority_Ret(nvic, IRQn) ==
    Value(And(ShiftRight(HwRead(nvic, "IPR", RegIndex(IRQn)), PriorityPos(IRQn) + 4),
              ToWord(15)))

GetActive_Ret_Raw(nvic, IRQn) ==
    Value(U8Word(And(HwRead(nvic, "IABR", RegNum(IRQn)),
                     ShiftLeft(ToWord(1), BitNum(IRQn)))))
GetActive_Ret(nvic, IRQn) ==
    IF And(HwRead(nvic, "IABR", RegNum(IRQn)), ShiftLeft(ToWord(1), BitNum(IRQn))) # {}
    THEN U8(1) ELSE U8(0)

-----------------------------------------------------------------------------
(* NVIC_SetPriority: two compound assignments on IPR[RegIndex], each a read *)
(* followed by a write, and only on the branch where priority <= 15         *)

ClearField_All(w, pos) == {}
ClearField_Toggle(w, pos) == Xor(w, Not(ShiftLeft(ToWord(240), pos)))
\* NVIC->IPR[RegIndex] &= ~(0xF0U << PriorityPos): the word written
ClearField(w, pos) == And(w, Not(ShiftLeft(ToWord(240), pos)))

SetField_Low(w, pos, priority) == Or(w, ShiftLeft(And(ToWord(priority), ToWord(15)), pos))
\* NVIC->IPR[RegIndex] |= ((priority & 0xFU) << (PriorityPos + 4U)): the word written
SetField(w, pos, priority) ==
    Or(w, ShiftLeft(And(ToWord(priority), ToWord(15)), pos + 4))

SetPriority_Clear(nvic, IRQn) ==
    Access("W", "IPR", RegIndex(IRQn),
           ClearField(HwRead(nvic, "IPR", RegIndex(IRQn)), PriorityPos(IRQn)))

SetPriority_Set(nvic, IRQn, priority) ==
    Access("W", "IPR", RegIndex(IRQn),
           SetField(HwRead(nvic, "IPR", RegIndex(IRQn)), PriorityPos(IRQn), priority))

\* the bus accesses of one whole call, in order
SetPriority_Accesses(nvic, IRQn, priority) ==
    IF priority > 15 THEN <<>>
    ELSE LET r == RegIndex(IRQn)
             c == SetPriority_Clear(nvic, IRQn)
             n1 == HwWrite(nvic, c)
             s == SetPriority_Set(n1, IRQn, priority)
         IN <<Access("R", "IPR", r, HwRead(nvic, "IPR", r)), c,
              Access("R", "IPR", r, HwRead(n1, "IPR", r)), s>>

\* the register block after the accesses acc
RECURSIVE Run(_, _)
Run(nvic, acc) ==
    IF acc = <<>> THEN nvic
    ELSE Run(IF Head(acc).rw = "W" THEN HwWrite(nvic, Head(acc)) ELSE nvic, Tail(acc))

\* the register block after one whole call of a state-changing operation
Apply(nvic, op, IRQn, priority) ==
    IF op \in BitOps THEN HwWrite(nvic, BitOp_Write(op, IRQn))
    ELSE Run(nvic, SetPriority_Accesses(nvic, IRQn, priority))

-----------------------------------------------------------------------------
(* Sequential use: a run of at most MaxSteps calls and hardware events *)

Call(op, IRQn, priority, ret, acc) ==
    [op |-> op, IRQn |-> IRQn, priority |-> priority, ret |-> ret, acc |-> acc]

NoCall == Call("none", 0, 0, 0, <<>>)

IdleFg == [op |-> "none", IRQn |-> 0, priority |-> 0, pc |-> "done", tmp |-> {},
           acc |-> <<>>]
IdleIsr == [op |-> "none", IRQn |-> 0, priority |-> 0, ran |-> TRUE, at |-> "none"]

Record(c) ==
    /\ nsteps' = nsteps + 1
    /\ before' = NVIC
    /\ prev' = last
    /\ last' = c
    /\ UNCHANGED <<irqs, fg, isr>>

Init ==
    /\ \E w \in Fills : NVIC = Filled(w)
    /\ \E b \in BaseIRQs : irqs = {b, b + 1}
    /\ before = NVIC
    /\ last = NoCall
    /\ prev = NoCall
    /\ nsteps = 0
    /\ fg = IdleFg
    /\ isr = IdleIsr

NVIC_EnableIRQ(IRQn) ==
    /\ nsteps < MaxSteps
    /\ NVIC' = HwWrite(NVIC, EnableIRQ_Write(IRQn))
    /\ Record(Call("EnableIRQ", IRQn, 0, 0, <<EnableIRQ_Write(IRQn)>>))

NVIC_DisableIRQ(IRQn) ==
    /\ nsteps < MaxSteps
    /\ NVIC' = HwWrite(NVIC, DisableIRQ_Write(IRQn))
    /\ Record(Call("DisableIRQ", IRQn, 0, 0, <<DisableIRQ_Write(IRQn)>>))

NVIC_SetPendingIRQ(IRQn) ==
    /\ nsteps < MaxSteps
    /\ NVIC' = HwWrite(NVIC, SetPendingIRQ_Write(IRQn))
    /\ Record(Call("SetPendingIRQ", IRQn, 0, 0, <<SetPendingIRQ_Write(IRQn)>>))

NVIC_ClearPendingIRQ(IRQn) ==
    /\ nsteps < MaxSteps
    /\ NVIC' = HwWrite(NVIC, ClearPendingIRQ_Write(IRQn))
    /\ Record(Call("ClearPendingIRQ", IRQn, 0, 0, <<ClearPendingIRQ_Write(IRQn)>>))

NVIC_GetPendingIRQ(IRQn) ==
    /\ nsteps < MaxSteps
    /\ NVIC' = NVIC
    /\ Record(Call("GetPendingIRQ", IRQn, 0, GetPendingIRQ_Ret(NVIC, IRQn),
                   <<Access("R", "ISPR", RegNum(IRQn), HwRead(NVIC, "ISPR", RegNum(IRQn)))>>))

NVIC_SetPriority(IRQn, priority) ==
    /\ nsteps < MaxSteps
    /\ NVIC' = Run(NVIC, SetPriority_Accesses(NVIC, IRQn, priority))
    /\ Record(Call("SetPriority", IRQn, priority, 0,
                   SetPriority_Accesses(NVIC, IRQn, priority)))

NVIC_GetPriority(IRQn) ==
    /\ nsteps < MaxSteps
    /\ NVIC' = NVIC
    /\ Record(Call("GetPriority", IRQn, 0, GetPriority_Ret(NVIC, IRQn),
                   <<Access("R", "IPR", RegIndex(IRQn), HwRead(NVIC, "IPR", RegIndex(IRQn)))>>))

NVIC_GetActive(IRQn) ==
    /\ nsteps < MaxSteps
    /\ NVIC' = NVIC
    /\ Record(Call("GetActive", IRQn, 0, GetActive_Ret(NVIC, IRQn),
                   <<Access("R", "IABR", RegNum(IRQn), HwRead(NVIC, "IABR", RegNum(IRQn)))>>))

\* the hardware enters or leaves the handler of IRQn: the only writer of IABR
\* (an event of the run, counted like a call)
HwDispatch(IRQn) ==
    /\ nsteps < MaxSteps
    /\ NVIC' = [NVIC EXCEPT !.IABR[IRQn \div 32] = Xor(@, {IRQn % 32})]
    /\ Record(Call("HwDispatch", IRQn, 0, 0, <<>>))

Next ==
    \/ \E IRQn \in irqs : NVIC_EnableIRQ(IRQn)
    \/ \E IRQn \in irqs : NVIC_DisableIRQ(IRQn)
    \/ \E IRQn \in irqs : NVIC_SetPendingIRQ(IRQn)
    \/ \E IRQn \in irqs : NVIC_ClearPendingIRQ(IRQn)
    \/ \E IRQn \in irqs : NVIC_GetPendingIRQ(IRQn)
    \/ \E IRQn \in irqs : \E priority \in Priorities : NVIC_SetPriority(IRQn, priority)
    \/ \E IRQn \in irqs : NVIC_GetPriority(IRQn)
    \/ \E IRQn \in irqs : NVIC_GetActive(IRQn)
    \/ \E IRQn \in irqs : HwDispatch(IRQn)

Spec == Init /\ [][Next]_vars

-----------------------------------------------------------------------------
(* Preempted use: the foreground runs one call access by access; an        *)
(* interrupt handler preempts it once, at any point, and runs one whole     *)
(* call on another identifier before the foreground goes on.                *)

Calls(ids) ==
    [op : BitOps, IRQn : ids, priority : {0}]
        \cup [op : {"SetPriority"}, IRQn : ids, priority : AllPriorities]

InitPreempt ==
    /\ \E w \in Fills : NVIC = Filled(w)
    /\ \E b \in BaseIRQs : irqs = {b, b + 1}
    /\ before = NVIC
    /\ last = NoCall
    /\ prev = NoCall
    /\ nsteps = 0
    /\ \E c \in Calls(irqs) :
           fg = [op |-> c.op, IRQn |-> c.IRQn, priority |-> c.priority,
                 pc |-> "entry", tmp |-> {}, acc |-> <<>>]
    /\ \E c \in Calls(irqs \ {fg.IRQn}) :
           isr = [op |-> c.op, IRQn |-> c.IRQn, priority |-> c.priority,
                  ran |-> FALSE, at |-> "none"]

\* RegNum and BitNum are computed: no register is touched yet
Fg_BitOp_Locals ==
    /\ fg.pc = "entry" /\ fg.op \in BitOps
    /\ fg' = [fg EXCEPT !.pc = "write"]
    /\ UNCHANGED <<NVIC, before, last, prev, nsteps, irqs, isr>>

Fg_BitOp_Write ==
    /\ fg.pc = "write"
    /\ NVIC' = HwWrite(NVIC, BitOp_Write(fg.op, fg.IRQn))
    /\ fg' = [fg EXCEPT !.pc = "done", !.acc = Append(@, BitOp_Write(fg.op, fg.IRQn))]
    /\ UNCHANGED <<before, last, prev, nsteps, irqs, isr>>

\* if (priority > 15U) priority = 15U; and nothing else on that branch
Fg_SetPriority_Clamp ==
    /\ fg.pc = "entry" /\ fg.op = "SetPriority" /\ fg.priority > 15
    /\ fg' = [fg EXCEPT !.pc = "done"]
    /\ UNCHANGED <<NVIC, before, last, prev, nsteps, irqs, isr>>

\* else: RegIndex and PriorityPos are computed
Fg_SetPriority_Locals ==
    /\ fg.pc = "entry" /\ fg.op = "SetPriority" /\ ~(fg.priority > 15)
    /\ fg' = [fg EXCEPT !.pc = "clr_read"]
    /\ UNCHANGED <<NVIC, before, last, prev, nsteps, irqs, isr>>

Fg_Read(from, to) ==
    /\ fg.pc = from
    /\ fg' = [fg EXCEPT !.pc = to,
                        !.tmp = HwRead(NVIC, "IPR", RegIndex(fg.IRQn)),
                        !.acc = Append(@, Access("R", "IPR", RegIndex(fg.IRQn),
                                                 HwRead(NVIC, "IPR", RegIndex(fg.IRQn))))]
    /\ UNCHANGED <<NVIC, before, last, prev, nsteps, irqs, isr>>

Fg_Write(from, to, word) ==
    /\ fg.pc = from
    /\ NVIC' = HwWrite(NVIC, Access("W", "IPR", RegIndex(fg.IRQn), word))
    /\ fg' = [fg EXCEPT !.pc = to,
                        !.acc = Append(@, Access("W", "IPR", RegIndex(fg.IRQn), word))]
    /\ UNCHANGED <<before, last, prev, nsteps, irqs, isr>>

Fg_Clear_Read == Fg_Read("clr_read", "clr_write")

Fg_Clear_Write ==
    Fg_Write("clr_write", "set_read", ClearField(fg.tmp, PriorityPos(fg.IRQn)))

Fg_Set_Read == Fg_Read("set_read", "set_write")

Fg_Set_Write ==
    Fg_Write("set_write", "done", SetField(fg.tmp, PriorityPos(fg.IRQn), fg.priority))

Isr_Call ==
    /\ ~isr.ran
    /\ NVIC' = Apply(NVIC, isr.op, isr.IRQn, isr.priority)
    /\ isr' = [isr EXCEPT !.ran = TRUE, !.at = fg.pc]
    /\ UNCHANGED <<before, last, prev, nsteps, irqs, fg>>

NextPreempt ==
    \/ Fg_BitOp_Locals
    \/ Fg_BitOp_Write
    \/ Fg_SetPriority_Clamp
    \/ Fg_SetPriority_Locals
    \/ Fg_Clear_Read
    \/ Fg_Clear_Write
    \/ Fg_Set_Read
    \/ Fg_Set_Write
    \/ Isr_Call

SpecPreempt == InitPreempt /\ [][NextPreempt]_vars

-----------------------------------------------------------------------------
(* What the claims are stated in: identifiers, bits and fields named        *)
(* directly by id/32, id%32, id/4 and (id%4)*8, not by the driver's helpers *)

DriverOps == {"EnableIRQ", "DisableIRQ", "SetPendingIRQ", "ClearPendingIRQ",
              "GetPendingIRQ", "SetPriority", "GetPriority", "GetActive"}

Lines == 0..(32 * (1 + FMPI2C1_error \div 32) - 1)

EnabledSet(nvic) == {i \in Lines : (i % 32) \in nvic.ISER[i \div 32]}
PendingSet(nvic) == {i \in Lines : (i % 32) \in nvic.ISPR[i \div 32]}

FieldBits(id) == {(id % 4) * 8 + k : k \in 4..7}

\* the priority field of id, read bit by bit from the upper nibble of its byte
Field(nvic, id) ==
    LET w == nvic.IPR[id \div 4]
        bit(k) == IF ((id % 4) * 8 + 4 + k) \in w THEN 2^k ELSE 0
    IN bit(0) + bit(1) + bit(2) + bit(3)

Min(a, b) == IF a < b THEN a ELSE b

Effect(S, op, id, setOp, clearOp) ==
    IF op = setOp THEN S \cup {id} ELSE IF op = clearOp THEN S \ {id} ELSE S

SamePair == prev.IRQn = last.IRQn

BothDone == fg.pc = "done" /\ isr.ran

\* C1: after NVIC_SetPriority(id, p) with p > 15, NVIC_GetPriority(id) returns 15
C1_ClampLaw ==
    (prev.op = "SetPriority" /\ last.op = "GetPriority" /\ SamePair /\ prev.priority > 15)
        => last.ret = 15

\* C2: NVIC_GetPendingIRQ(id) returns non-zero right after NVIC_SetPendingIRQ(id)
\* and zero right after NVIC_ClearPendingIRQ(id), for every bit position
C2_PendingFaithful ==
    (last.op = "GetPendingIRQ" /\ SamePair)
        => /\ prev.op = "SetPendingIRQ" => last.ret # 0
           /\ prev.op = "ClearPendingIRQ" => last.ret = 0

\* C3: NVIC_GetPriority(id) right after NVIC_SetPriority(id, p), 0 <= p <= 15,
\* returns exactly p, whatever the priority registers held before
C3_RoundTrip ==
    (prev.op = "SetPriority" /\ last.op = "GetPriority" /\ SamePair /\ prev.priority <= 15)
        => last.ret = prev.priority

C3_Witness ==
    /\ prev.op = "SetPriority" /\ last.op = "GetPriority" /\ SamePair
    /\ prev.priority = 10 /\ last.ret = 10
    /\ last.IRQn % 4 = 3
    /\ NVIC.IPR[last.IRQn \div 4] = AllOnes \ {28, 30}

\* C4: NVIC_SetPriority(id, p) changes no bit outside bits (id%4)*8+4..(id%4)*8+7
\* of priority register id/4, so a second NVIC_SetPriority on another identifier
\* of the same register leaves the first one's priority as it was set
C4_NoCrossTalk ==
    /\ last.op = "SetPriority"
         => [NVIC.IPR EXCEPT ![last.IRQn \div 4] = @ \ FieldBits(last.IRQn)]
               = [before.IPR EXCEPT ![last.IRQn \div 4] = @ \ FieldBits(last.IRQn)]
    /\ (prev.op = "SetPriority" /\ last.op = "SetPriority" /\ prev.IRQn # last.IRQn
          /\ prev.IRQn \div 4 = last.IRQn \div 4 /\ prev.priority <= 15)
         => GetPriority_Ret(NVIC, prev.IRQn) = prev.priority

C4_Witness ==
    /\ prev.op = "SetPriority" /\ last.op = "SetPriority" /\ prev.IRQn # last.IRQn
    /\ prev.IRQn \div 4 = last.IRQn \div 4
    /\ prev.priority = 5 /\ last.priority = 10
    /\ Field(before, last.IRQn) = 15
    /\ Field(NVIC, last.IRQn) = 10 /\ Field(NVIC, prev.IRQn) = 5

\* C5: NVIC_EnableIRQ(id) writes exactly the word 1 << (id%32) to ISER[id/32] and
\* NVIC_DisableIRQ(id) writes exactly that word to ICER[id/32]; the enable bit of
\* id is set after the one and clear after the other, every other enable bit unchanged
C5_EnableDisable ==
    /\ last.op = "EnableIRQ"
         => /\ last.acc = <<[rw |-> "W", arr |-> "ISER", idx |-> last.IRQn \div 32,
                             val |-> {last.IRQn % 32}]>>
            /\ NVIC.ISER = [before.ISER EXCEPT ![last.IRQn \div 32] = @ \cup {last.IRQn % 32}]
    /\ last.op = "DisableIRQ"
         => /\ last.acc = <<[rw |-> "W", arr |-> "ICER", idx |-> last.IRQn \div 32,
                             val |-> {last.IRQn % 32}]>>
            /\ NVIC.ISER = [before.ISER EXCEPT ![last.IRQn \div 32] = @ \ {last.IRQn % 32}]

C5_Witness ==
    /\ prev.op = "EnableIRQ" /\ last.op = "DisableIRQ" /\ SamePair
    /\ last.IRQn \notin EnabledSet(NVIC)
    /\ last.IRQn \in EnabledSet(before)
    /\ EnabledSet(NVIC) = Lines \ {last.IRQn}

C9_Idempotent ==
    (last.op \in BitOps \cup {"SetPriority"} /\ prev.op = last.op /\ SamePair
       /\ prev.priority = last.priority)
        => NVIC = before

C9_Witness ==
    /\ prev.op = "SetPriority" /\ last.op = "SetPriority" /\ SamePair
    /\ prev.priority = 5 /\ last.priority = 5
    /\ Field(NVIC, last.IRQn) = 5
    /\ NVIC.IPR[last.IRQn \div 4] # AllOnes

\* C7: a foreground NVIC_SetPriority(id1, p1) preempted by a whole
\* NVIC_SetPriority(id2, p2), id1 # id2 in different priority registers, p1, p2 <= 15:
\* when both have finished both priorities read back as set, under every interleaving
C7_OtherRegisterSafe ==
    (BothDone /\ fg.op = "SetPriority" /\ isr.op = "SetPriority"
       /\ fg.IRQn # isr.IRQn /\ fg.priority <= 15 /\ isr.priority <= 15
       /\ fg.IRQn \div 4 # isr.IRQn \div 4)
        => /\ GetPriority_Ret(NVIC, fg.IRQn) = fg.priority
           /\ GetPriority_Ret(NVIC, isr.IRQn) = isr.priority

\* C7, the same-register half: an interleaving after which the handler's update is lost
C7_LostUpdate ==
    /\ BothDone /\ fg.op = "SetPriority" /\ isr.op = "SetPriority"
    /\ fg.IRQn # isr.IRQn /\ fg.priority <= 15 /\ isr.priority <= 15
    /\ fg.IRQn \div 4 = isr.IRQn \div 4
    /\ isr.at \in {"clr_write", "set_write"}
    /\ GetPriority_Ret(NVIC, isr.IRQn) # isr.priority
    /\ GetPriority_Ret(NVIC, fg.IRQn) = fg.priority

\* C8: EnableIRQ, DisableIRQ, SetPendingIRQ and ClearPendingIRQ each make one register
\* write and no read; two of them on different identifiers, one preempting the other,
\* end under every interleaving in the enable and pending bits of running them one
\* after the other, with the effect of neither lost
C8_BitOpsRaceFree ==
    /\ fg.op \in BitOps
         => /\ \A k \in 1..Len(fg.acc) : fg.acc[k].rw = "W"
            /\ Len(fg.acc) = (IF fg.pc = "done" THEN 1 ELSE 0)
    /\ (BothDone /\ fg.op \in BitOps /\ isr.op \in BitOps /\ fg.IRQn # isr.IRQn)
         => /\ NVIC = Apply(Apply(before, fg.op, fg.IRQn, 0), isr.op, isr.IRQn, 0)
            /\ NVIC = Apply(Apply(before, isr.op, isr.IRQn, 0), fg.op, fg.IRQn, 0)
            /\ EnabledSet(NVIC) =
                  Effect(Effect(EnabledSet(before), fg.op, fg.IRQn, "EnableIRQ", "DisableIRQ"),
                         isr.op, isr.IRQn, "EnableIRQ", "DisableIRQ")
            /\ PendingSet(NVIC) =
                  Effect(Effect(PendingSet(before), fg.op, fg.IRQn,
                                "SetPendingIRQ", "ClearPendingIRQ"),
                         isr.op, isr.IRQn, "SetPendingIRQ", "ClearPendingIRQ")

C8_Witness ==
    /\ BothDone /\ fg.op = "EnableIRQ" /\ isr.op = "DisableIRQ"
    /\ fg.IRQn # isr.IRQn /\ fg.IRQn \div 32 = isr.IRQn \div 32
    /\ isr.at = "write"
    /\ isr.IRQn \in EnabledSet(before) /\ fg.IRQn \notin EnabledSet(before)
    /\ fg.IRQn \in EnabledSet(NVIC) /\ isr.IRQn \notin EnabledSet(NVIC)
    /\ fg.IRQn % 2 = 1

\* C10: NVIC_SetPriority(id, p) is one read and one write-back of the priority register,
\* so at every point of the call the field of id holds its old value or min(p, 15)
C10_SingleReadModifyWrite ==
    (fg.op = "SetPriority" /\ fg.priority <= 15)
        => /\ GetPriority_Ret(NVIC, fg.IRQn)
                 \in {GetPriority_Ret(before, fg.IRQn), Min(fg.priority, 15)}
           /\ fg.pc = "done" => Len(fg.acc) = 2

====
